---- MODULE Spec2Model ----
(***************************************************************************)
(* Additive-Schwarz patch construction of firedrake/preconditioners/asm.py *)
(* (ASMPatchPC and its Star, Vanka, Linesmooth and ExtrudedStar variants,  *)
(* nested_dissection and get_basemesh_nodes) as a state machine.           *)
(*                                                                         *)
(* The mesh DM, the dof sections, the options database and the ordering    *)
(* routine are external collaborators: they are drawn in Init from small   *)
(* concrete sets and are read-only afterwards.                             *)
(***************************************************************************)
EXTENDS Integers, Sequences, FiniteSets, TLC

(***************************************************************************)
(* Bounds of the model.                                                    *)
(***************************************************************************)
MaxLayers == 3

MaxCalls == 2

MaxLen == 3

(***************************************************************************)
(* Generic sequence helpers (numpy / list primitives used by the source).  *)
(***************************************************************************)
\* numpy.arange(a, b): a, a+1, ..., b-1 (empty when b <= a)
Arange(a, b) == IF b > a THEN [j \in 1..(b - a) |-> a + j - 1] ELSE << >>

\* set of the entries of a sequence
SeqRange(s) == { s[j] : j \in DOMAIN s }

\* number of occurrences of x in s
Count(s, x) == Cardinality({ j \in DOMAIN s : s[j] = x })

\* list.extend over a list of lists, in order
RECURSIVE Flatten(_)
Flatten(ss) == IF ss = << >> THEN << >> ELSE Head(ss) \o Flatten(Tail(ss))

\* ascending list of a finite set of integers
RECURSIVE SortedSeq(_)
SortedSeq(S) ==
  IF S = {} THEN << >>
  ELSE LET m == CHOOSE x \in S : \A y \in S : x <= y
       IN << m >> \o SortedSeq(S \ {m})

\* remove later duplicates, keeping first occurrences in order
RECURSIVE Dedup(_, _)
Dedup(s, seen) ==
  IF s = << >> THEN << >>
  ELSE IF Head(s) \in seen THEN Dedup(Tail(s), seen)
       ELSE << Head(s) >> \o Dedup(Tail(s), seen \cup {Head(s)})

Min2(a, b) == IF a <= b THEN a ELSE b

Max2(a, b) == IF a >= b THEN a ELSE b

(***************************************************************************)
(* The mesh DM: two triangles sharing an edge, in DMPlex numbering         *)
(* (cells, then vertices, then edges).                                     *)
(*      cells 0, 1; vertices 2..5; edges 6 = (2,3), 7 = (3,4), 8 = (4,2),  *)
(*      9 = (3,5), 10 = (5,4); cell 0 = (6,7,8), cell 1 = (7,9,10).        *)
(***************************************************************************)
Points == 0..10

Cone(p) ==
  CASE p = 0 -> << 6, 7, 8 >>
    [] p = 1 -> << 7, 9, 10 >>
    [] p = 6 -> << 2, 3 >>
    [] p = 7 -> << 3, 4 >>
    [] p = 8 -> << 4, 2 >>
    [] p = 9 -> << 3, 5 >>
    [] p = 10 -> << 5, 4 >>
    [] OTHER -> << >>

Support(p) == SortedSeq({ q \in Points : p \in SeqRange(Cone(q)) })

\* topological dimension of a point
PointDepth(p) == IF p \in 0..1 THEN 2 ELSE IF p \in 2..5 THEN 0 ELSE 1

\* mesh_dm.getChart()
getChart == << 0, 11 >>

\* mesh_dm.getDepthStratum(depth): half-open range of point numbers
getDepthStratum(depth) ==
  CASE depth = 0 -> << 2, 6 >>
    [] depth = 1 -> << 6, 11 >>
    [] depth = 2 -> << 0, 2 >>
    [] OTHER -> << 0, 0 >>

\* mesh_dm.getHeightStratum(height)
getHeightStratum(height) == getDepthStratum(2 - height)

\* mesh_dm.getTransitiveClosure(p, useCone): p first, then breadth first
\* along cones (useCone = TRUE) or supports (useCone = FALSE), no repeats
RECURSIVE ClosureFrom(_, _, _)
ClosureFrom(frontier, acc, useCone) ==
  IF frontier = << >> THEN acc
  ELSE LET nxt == Flatten([j \in DOMAIN frontier |->
                      IF useCone THEN Cone(frontier[j]) ELSE Support(frontier[j])])
           new == Dedup(nxt, SeqRange(acc))
       IN ClosureFrom(new, acc \o new, useCone)

getTransitiveClosure(p, useCone) == ClosureFrom(<< p >>, << p >>, useCone)

\* mesh_dm.getAdjacency(p): points of the closure of the star of p
getAdjacency(p) ==
  LET star == getTransitiveClosure(p, FALSE)
  IN UNION { SeqRange(getTransitiveClosure(star[j], TRUE)) : j \in DOMAIN star }

\* ownership labellings of the local mesh (points carrying pyop2_ghost)
GhostSets == { {}, {1, 5, 9, 10}, {1, 3, 4, 5, 9, 10} }

(***************************************************************************)
(* Function spaces: a sequence of fields.  For each field, by point depth  *)
(* (index depth+1): flat = dofs per entity on a non-extruded mesh,         *)
(* dpl = dofs on the entity in one layer and stride = dofs per vertical    *)
(* layer of the column over the entity (extruded mesh), vs = value_size.   *)
(***************************************************************************)
P1 == [flat |-> << 1, 0, 0 >>, dpl |-> << 1, 0, 0 >>, stride |-> << 1, 0, 0 >>, vs |-> 1]

VP1 == [flat |-> << 1, 0, 0 >>, dpl |-> << 1, 0, 0 >>, stride |-> << 1, 0, 0 >>, vs |-> 2]

P2 == [flat |-> << 1, 1, 0 >>, dpl |-> << 1, 1, 0 >>, stride |-> << 2, 2, 0 >>, vs |-> 1]

DG0 == [flat |-> << 0, 0, 1 >>, dpl |-> << 0, 0, 0 >>, stride |-> << 0, 0, 1 >>, vs |-> 1]

VP2 == [flat |-> << 1, 1, 0 >>, dpl |-> << 1, 1, 0 >>, stride |-> << 2, 2, 0 >>, vs |-> 2]

Spaces == { << P1 >>, << P2 >>, << VP1, DG0 >> }

\* spaces with one section, as ASMLinesmoothPC reads V.dm and V.value_size
LineSpaces == { << P1 >>, << P2 >>, << VP2 >> }

Strategies == { "Star", "Vanka", "Linesmooth", "ExtrudedStar" }

Backends == { "petscasm", "tinyasm", "superlu" }

OrderingKinds == { "natural", "reverse", "rotate" }

DimOptions == { -1, 0, 1, 2 }

CodimLists == { << 0, 1 >>, << 1 >>, << 0, 0 >> }

VARIABLES
  strategy,        \* the ASMPatchPC subclass in use
  extruded,        \* mesh.cell_set._extruded
  nlayers,         \* mesh.layers (0 stands for None on a flat mesh)
  ghost,           \* points whose pyop2_ghost label value is not -1
  V,               \* the function space: sequence of fields
  construct_dim,   \* option <prefix>construct_dim as getInt(..., default=-1) reads it (-1: not set)
  construct_codim, \* option <prefix>construct_codim as getInt(..., default=-1) reads it (-1: not set)
  codims,          \* option <prefix>codims parsed to a list
  ordering,        \* which permutation the ordering routine returns
  backend,         \* option <prefix>backend, lower-cased
  have_tinyasm,    \* module flag set by the tinyasm import
  pc,              \* control point of the preconditioner object
  method,          \* the class whose get_patches body is running
  err,             \* the exception that ended initialize, or NoError
  warnings,        \* messages passed to warning()
  depth,           \* local of get_patches
  height,          \* local of ASMVankaPC.get_patches
  seed,            \* loop variable of the seed loop
  stop,            \* end of the seed range
  ci,              \* position in codim_list (Linesmooth outer loop)
  points,          \* reordered star of the current seed (ExtrudedStar)
  kiter,           \* next value range(nlayers) will deliver
  ises,            \* list of index sets built by get_patches
  asmpc,           \* the inner PC: type, registered subdomains, setUp count
  seedlog,         \* seeds that passed the ownership test, in order
  ptlog,           \* per emitted patch: seed, layer, point set, planes
  ncalls,          \* counters of the calls made so far
  nd_in,           \* argument of a nested_dissection call under test
  nd_out           \* its result

vars == << strategy, extruded, nlayers, ghost, V, construct_dim, construct_codim,
           codims, ordering, backend, have_tinyasm, pc, method, err, warnings,
           depth, height, seed, stop, ci, points, kiter, ises, asmpc, seedlog,
           ptlog, ncalls, nd_in, nd_out >>

env == << strategy, extruded, nlayers, ghost, V, construct_dim, construct_codim,
          codims, ordering, backend, have_tinyasm >>

(***************************************************************************)
(* Options database.                                                       *)
(***************************************************************************)
\* PETSc.Options().getInt(key, default): the stored value, or the default
\* when the key is not set (the model stores -1 for a key that is not set)
getInt(value, default) == IF value = -1 THEN default ELSE value

\* pc.getOptionsPrefix()
OptionsPrefix == "firedrake_0_"

\* the _prefix class attribute
ClassPrefix(cls) ==
  CASE cls = "Star" -> "pc_star_"
    [] cls = "Vanka" -> "pc_vanka_"
    [] cls = "Linesmooth" -> "pc_linesmooth_"
    [] cls = "ExtrudedStar" -> "pc_star_"

\* self.prefix as set by initialize
prefix == OptionsPrefix \o ClassPrefix(strategy)

NoError == [kind |-> "none", keys |-> {}]

\* the exceptions initialize can end with
VankaOptionsError == "ValueError: Must set exactly one of construct_dim or construct_codim"

LinesmoothAssertion == "AssertionError"

ConcatenateError == "ValueError: need at least one array to concatenate"

TinyASMError == "ValueError: To use the TinyASM backend you need to install firedrake with TinyASM (firedrake-update --tinyasm)"

UnknownBackendError == "ValueError: Unknown backend type"

(***************************************************************************)
(* Dof sections and index arrays.                                          *)
(***************************************************************************)
\* variant of the ownership test with the comparison inverted
IsGhost_Inverted(p) == p \notin ghost

\* mesh_dm.getLabelValue("pyop2_ghost", p) != -1
IsGhost(p) == p \in ghost

\* section.getDof(p) of field W
getDof(W, p) ==
  LET d == PointDepth(p) + 1
  IN IF extruded
     THEN (IF W.stride[d] > 0 THEN W.dpl[d] + (nlayers - 1) * W.stride[d] ELSE 0)
     ELSE W.flat[d]

\* section.getOffset(p) of field W: dofs of the points numbered before p
RECURSIVE getOffset(_, _)
getOffset(W, p) == IF p = 0 THEN 0 ELSE getOffset(W, p - 1) + getDof(W, p - 1)

\* W.dof_dset.total_size
total_size(W) == getOffset(W, getChart[2])

\* first mixed-space local index of field i
RECURSIVE FieldStart(_)
FieldStart(i) ==
  IF i = 1 THEN 0 ELSE FieldStart(i - 1) + V[i - 1].vs * total_size(V[i - 1])

\* V.dof_dset.local_ises[i].indices: field-local index j |-> local index of V
local_ises_indices(i) == [j \in 1..(V[i].vs * total_size(V[i])) |-> FieldStart(i) + j - 1]

\* lgmap.applyIS(iset): local to global numbers (owned block of this rank
\* starts at 1000; the map is injective and not the identity)
applyIS(iset) == [j \in DOMAIN iset |-> iset[j] + 1000]

\* arr[a:b] of a numpy array (0-based, end exclusive, negative bounds wrap,
\* bounds are clipped to the array)
Slice(arr, a, b) ==
  LET n == Len(arr)
      lo == IF a < 0 THEN Max2(a + n, 0) ELSE Min2(a, n)
      hi == IF b < 0 THEN Max2(b + n, 0) ELSE Min2(b, n)
  IN IF hi > lo THEN [j \in 1..(hi - lo) |-> arr[lo + j]] ELSE << >>

\* local indices of the dofs of field i on point p (lines 160-166):
\* nothing when dof <= 0, else the value_size*dof entries from value_size*off
PointIndices(i, p) ==
  LET W == V[i]
      dof == getDof(W, p)
      off == getOffset(W, p)
      W_indices == Arange(off * W.vs, W.vs * (off + dof))
      arr == local_ises_indices(i)
  IN IF dof <= 0 THEN << >>
     ELSE [j \in DOMAIN W_indices |-> arr[W_indices[j] + 1]]

\* variant of lines 157-166 with the loops exchanged: points outermost
PatchIndices_PointMajor(pt_array) ==
  Flatten([j \in DOMAIN pt_array |->
             Flatten([i \in DOMAIN V |-> PointIndices(i, pt_array[j])])])

\* the dof-extraction loop shared by Star and Vanka: fields outermost,
\* points of pt_array innermost
PatchIndices(pt_array) ==
  Flatten([i \in DOMAIN V |->
             Flatten([j \in DOMAIN pt_array |-> PointIndices(i, pt_array[j])])])

(***************************************************************************)
(* nested_dissection                                                       *)
(***************************************************************************)
\* numpy.intersect1d(ar1, ar2, return_indices=True)[1]: for each common
\* value in ascending order, the 0-based index of its first occurrence in ar1
intersect1d_indices(ar1, S) ==
  LET common == SortedSeq(SeqRange(ar1) \cap S)
  IN [j \in DOMAIN common |->
        (CHOOSE a \in DOMAIN ar1 : ar1[a] = common[j]
                                   /\ \A b \in DOMAIN ar1 : ar1[b] = common[j] => a <= b) - 1]

\* G.getOrdering(ND) followed by getIndices(): a bijection on [0, n)
getOrdering(n) ==
  CASE ordering = "natural" -> [j \in 1..n |-> j - 1]
    [] ordering = "reverse" -> [j \in 1..n |-> n - j]
    [] ordering = "rotate" -> [j \in 1..n |-> j % n]

\* variant of lines 287-295 that returns the ordering instead of the
\* reordered points
nested_dissection_ReturnsIdx(pt_array) ==
  LET num_pt == Len(pt_array)
      subgraph == [j \in 1..num_pt |->
                     intersect1d_indices(pt_array, getAdjacency(pt_array[j]))]
      idx == getOrdering(num_pt)
  IN IF subgraph = << >>
     THEN [raised |-> TRUE, value |-> << >>]
     ELSE [raised |-> FALSE, value |-> idx]

\* nested_dissection(mesh_dm, pt_array); raised = numpy.concatenate got an
\* empty list of arrays
nested_dissection(pt_array) ==
  LET num_pt == Len(pt_array)
      subgraph == [j \in 1..num_pt |->
                     intersect1d_indices(pt_array, getAdjacency(pt_array[j]))]
      idx == getOrdering(num_pt)
  IN IF subgraph = << >>
     THEN [raised |-> TRUE, value |-> << >>]
     ELSE [raised |-> FALSE,
           value |-> [j \in 1..Len(idx) |-> pt_array[idx[j] + 1]]]

\* iteration order of a Python set of points (not specified by the
\* language): some fixed arrangement of its elements
SetOrder(S) ==
  LET asc == SortedSeq(S)
      idx == getOrdering(Len(asc))
  IN [j \in DOMAIN asc |-> asc[idx[j] + 1]]

(***************************************************************************)
(* Initial state: a constructed, not yet initialised preconditioner and    *)
(* its environment.  Options that a strategy does not read keep their      *)
(* defaults.  Linesmooth reads one section (V.dm) and is given one field.  *)
(* mesh.layers counts the vertex layers of an extruded mesh (cell layers   *)
(* plus one), so an extruded mesh has at least two.                        *)
(***************************************************************************)
NoPC == [type |-> "none", subdomains |-> << >>, registered |-> 0, setUp |-> 0,
         stored |-> FALSE]

NoCalls == [get_patches |-> 0, update |-> 0, apply |-> 0, applyTranspose |-> 0]

InitProgram ==
  /\ pc = "uninitialized"
  /\ err = NoError
  /\ warnings = {}
  /\ depth = -1
  /\ height = -1
  /\ seed = 0
  /\ stop = 0
  /\ ci = 0
  /\ points = << >>
  /\ kiter = 0
  /\ ises = << >>
  /\ asmpc = NoPC
  /\ seedlog = << >>
  /\ ptlog = << >>
  /\ ncalls = NoCalls

Init ==
  /\ strategy \in Strategies
  /\ extruded \in BOOLEAN
  /\ nlayers \in (IF extruded THEN 2..MaxLayers ELSE {0})
  /\ ghost \in GhostSets
  /\ V \in (IF strategy = "Linesmooth" THEN LineSpaces ELSE Spaces)
  /\ construct_dim \in (IF strategy = "Linesmooth" THEN {-1} ELSE DimOptions)
  /\ construct_codim \in (IF strategy = "Vanka" THEN DimOptions ELSE {-1})
  /\ codims \in (IF strategy = "Linesmooth" THEN CodimLists ELSE { << 0, 1 >> })
  /\ ordering \in (IF strategy = "Linesmooth" THEN {"natural"} ELSE OrderingKinds)
  /\ backend \in Backends
  /\ have_tinyasm \in BOOLEAN
  /\ method = strategy
  /\ nd_in = << >>
  /\ nd_out = [raised |-> FALSE, value |-> << >>]
  /\ InitProgram

\* raise: the exception propagates out of initialize
Raise(kind, keys) ==
  /\ pc' = "error"
  /\ err' = [kind |-> kind, keys |-> keys]

\* one entry of the patch log
LogEntry(s, layer, ptseq, pts, planes, fields) ==
  [seed |-> s, layer |-> layer, ptseq |-> ptseq, pts |-> pts, planes |-> planes,
   fields |-> fields]

(***************************************************************************)
(* ASMPatchPC.initialize, lines 33-43: up to the call of get_patches       *)
(***************************************************************************)
Initialize ==
  /\ pc = "uninitialized"
  /\ pc' = "get_patches"
  /\ ncalls' = [ncalls EXCEPT !.get_patches = @ + 1]
  /\ UNCHANGED << env, method, err, warnings, depth, height, seed, stop, ci,
                  points, kiter, ises, asmpc, seedlog, ptlog, nd_in, nd_out >>

(***************************************************************************)
(* ASMStarPC.get_patches                                                   *)
(***************************************************************************)
\* ASMStarPC.get_patches as a function of its inputs (lines 128-170): one
\* index set per owned entity of the depth stratum, in ascending order
StarResult ==
  LET range == getDepthStratum(getInt(construct_dim, 0))
      owned == SortedSeq({ e \in range[1]..(range[2] - 1) : ~IsGhost(e) })
  IN [j \in DOMAIN owned |->
        PatchIndices(nested_dissection(getTransitiveClosure(owned[j], FALSE)).value)]

\* lines 129-145
StarEnter ==
  /\ pc = "get_patches"
  /\ method = "Star"
  /\ warnings' = IF extruded
                 THEN warnings \cup {"applying ASMStarPC on an extruded mesh"}
                 ELSE warnings
  /\ depth' = getInt(construct_dim, 0)
  /\ ises' = << >>
  /\ seed' = getDepthStratum(getInt(construct_dim, 0))[1]
  /\ stop' = getDepthStratum(getInt(construct_dim, 0))[2]
  /\ pc' = "star_loop"
  /\ UNCHANGED << env, method, err, height, ci, points, kiter, asmpc, seedlog,
                  ptlog, ncalls, nd_in, nd_out >>

\* lines 146-149 and 170: next seed, ownership test, return
StarSeedLoop ==
  /\ pc = "star_loop"
  /\ IF seed >= stop
     THEN /\ pc' = "returned"
          /\ UNCHANGED << seed, seedlog >>
     ELSE IF IsGhost(seed)
          THEN /\ seed' = seed + 1
               /\ UNCHANGED << pc, seedlog >>
          ELSE /\ seedlog' = Append(seedlog, seed)
               /\ pc' = "star_build"
               /\ UNCHANGED seed
  /\ UNCHANGED << env, method, err, warnings, depth, height, stop, ci, points,
                  kiter, ises, asmpc, ptlog, ncalls, nd_in, nd_out >>

\* variant of line 152 with the closure taken along the cones
StarPoints_UseCone(s) == getTransitiveClosure(s, TRUE)

\* line 152: the point list of the Star patch of a seed
StarPoints(s) == getTransitiveClosure(s, FALSE)

\* lines 152-168: star, reordering, dof extraction, append
StarBuildPatch ==
  /\ pc = "star_build"
  /\ LET nd == nested_dissection(StarPoints(seed))
     IN IF nd.raised
        THEN /\ Raise(ConcatenateError, {})
             /\ UNCHANGED << seed, ises, ptlog >>
        ELSE /\ ises' = Append(ises, PatchIndices(nd.value))
             /\ ptlog' = Append(ptlog, LogEntry(seed, -1, nd.value, SeqRange(nd.value), << >>, << >>))
             /\ seed' = seed + 1
             /\ pc' = "star_loop"
             /\ UNCHANGED err
  /\ UNCHANGED << env, method, warnings, depth, height, stop, ci, points,
                  kiter, asmpc, seedlog, ncalls, nd_in, nd_out >>

(***************************************************************************)
(* ASMVankaPC.get_patches                                                  *)
(***************************************************************************)
\* variant of line 193 that forgets the case of both options set
VankaBadOptions_OnlyUnset(d, h) == d = -1 /\ h = -1

\* line 193: the options are rejected
VankaBadOptions(d, h) == (d = -1 /\ h = -1) \/ (d # -1 /\ h # -1)

\* lines 185-207
VankaEnter ==
  /\ pc = "get_patches"
  /\ method = "Vanka"
  /\ warnings' = IF nlayers # 0
                 THEN warnings \cup {"applying ASMVankaPC on an extruded mesh"}
                 ELSE warnings
  /\ depth' = getInt(construct_dim, -1)
  /\ height' = getInt(construct_codim, -1)
  /\ IF VankaBadOptions(getInt(construct_dim, -1), getInt(construct_codim, -1))
     THEN /\ Raise(VankaOptionsError,
                   {prefix \o "construct_dim", prefix \o "construct_codim"})
          /\ UNCHANGED << seed, stop, ises >>
     ELSE /\ ises' = << >>
          /\ seed' = (IF depth' # -1 THEN getDepthStratum(depth')
                                      ELSE getHeightStratum(height'))[1]
          /\ stop' = (IF depth' # -1 THEN getDepthStratum(depth')
                                      ELSE getHeightStratum(height'))[2]
          /\ pc' = "vanka_loop"
          /\ UNCHANGED err
  /\ UNCHANGED << env, method, ci, points, kiter, asmpc, seedlog, ptlog, ncalls,
                  nd_in, nd_out >>

\* lines 209-212 and 236
VankaSeedLoop ==
  /\ pc = "vanka_loop"
  /\ IF seed >= stop
     THEN /\ pc' = "returned"
          /\ UNCHANGED << seed, seedlog >>
     ELSE IF IsGhost(seed)
          THEN /\ seed' = seed + 1
               /\ UNCHANGED << pc, seedlog >>
          ELSE /\ seedlog' = Append(seedlog, seed)
               /\ pc' = "vanka_build"
               /\ UNCHANGED seed
  /\ UNCHANGED << env, method, err, warnings, depth, height, stop, ci, points,
                  kiter, ises, asmpc, ptlog, ncalls, nd_in, nd_out >>

\* lines 215-219: for every pt of the star, the closure taken at line 218
\* is that of the seed; the set collects the union
VankaPoints(s) ==
  LET star == getTransitiveClosure(s, FALSE)
  IN UNION { SeqRange(getTransitiveClosure(s, TRUE)) : j \in DOMAIN star }

\* lines 215-234
VankaBuildPatch ==
  /\ pc = "vanka_build"
  /\ ises' = Append(ises, PatchIndices(SetOrder(VankaPoints(seed))))
  /\ ptlog' = Append(ptlog, LogEntry(seed, -1, SetOrder(VankaPoints(seed)), VankaPoints(seed),
                                     << >>, << >>))
  /\ seed' = seed + 1
  /\ pc' = "vanka_loop"
  /\ UNCHANGED << env, method, err, warnings, depth, height, stop, ci, points,
                  kiter, asmpc, seedlog, ncalls, nd_in, nd_out >>

(***************************************************************************)
(* ASMLinesmoothPC.get_patches                                             *)
(***************************************************************************)
\* lines 261-271: the assertion, the codim list, the first stratum
LinesmoothEnter ==
  /\ pc = "get_patches"
  /\ method = "Linesmooth"
  /\ IF ~extruded
     THEN /\ Raise(LinesmoothAssertion, {})
          /\ UNCHANGED << ises, ci, seed, stop >>
     ELSE /\ ises' = << >>
          /\ ci' = 1
          /\ seed' = getHeightStratum(codims[1])[1]
          /\ stop' = getHeightStratum(codims[1])[2]
          /\ pc' = "line_loop"
          /\ UNCHANGED err
  /\ UNCHANGED << env, method, warnings, depth, height, points, kiter, asmpc,
                  seedlog, ptlog, ncalls, nd_in, nd_out >>

\* variant of lines 271-284 whose range starts at off, not off*value_size
LinesmoothLoop_UnscaledStart ==
  /\ pc = "line_loop"
  /\ IF seed >= stop
     THEN IF ci < Len(codims)
          THEN /\ ci' = ci + 1
               /\ seed' = getHeightStratum(codims[ci + 1])[1]
               /\ stop' = getHeightStratum(codims[ci + 1])[2]
               /\ UNCHANGED << pc, ises, seedlog, ptlog >>
          ELSE /\ pc' = "returned"
               /\ UNCHANGED << ci, seed, stop, ises, seedlog, ptlog >>
     ELSE IF IsGhost(seed)
          THEN /\ seed' = seed + 1
               /\ UNCHANGED << pc, ci, stop, ises, seedlog, ptlog >>
          ELSE LET W == V[1]
                   dof == getDof(W, seed)
                   off == getOffset(W, seed)
               IN /\ seedlog' = Append(seedlog, seed)
                  /\ seed' = seed + 1
                  /\ UNCHANGED << pc, ci, stop >>
                  /\ IF dof <= 0
                     THEN UNCHANGED << ises, ptlog >>
                     ELSE /\ ises' = Append(ises, Arange(off, W.vs * (off + dof)))
                          /\ ptlog' = Append(ptlog, LogEntry(seed, -1, << seed >>, {seed},
                                                             << >>, << >>))
  /\ UNCHANGED << env, method, err, warnings, depth, height, points, kiter,
                  asmpc, ncalls, nd_in, nd_out >>

\* lines 271-284: one step of the nested loops over codims and entities
LinesmoothLoop ==
  /\ pc = "line_loop"
  /\ IF seed >= stop
     THEN IF ci < Len(codims)
          THEN /\ ci' = ci + 1
               /\ seed' = getHeightStratum(codims[ci + 1])[1]
               /\ stop' = getHeightStratum(codims[ci + 1])[2]
               /\ UNCHANGED << pc, ises, seedlog, ptlog >>
          ELSE /\ pc' = "returned"
               /\ UNCHANGED << ci, seed, stop, ises, seedlog, ptlog >>
     ELSE IF IsGhost(seed)
          THEN /\ seed' = seed + 1
               /\ UNCHANGED << pc, ci, stop, ises, seedlog, ptlog >>
          ELSE LET W == V[1]
                   dof == getDof(W, seed)
                   off == getOffset(W, seed)
               IN /\ seedlog' = Append(seedlog, seed)
                  /\ seed' = seed + 1
                  /\ UNCHANGED << pc, ci, stop >>
                  /\ IF dof <= 0
                     THEN UNCHANGED << ises, ptlog >>
                     ELSE /\ ises' = Append(ises, Arange(off * W.vs, W.vs * (off + dof)))
                          /\ ptlog' = Append(ptlog, LogEntry(seed, -1, << seed >>, {seed},
                                                             << >>, << >>))
  /\ UNCHANGED << env, method, err, warnings, depth, height, points, kiter,
                  asmpc, ncalls, nd_in, nd_out >>

(***************************************************************************)
(* get_basemesh_nodes and ASMExtrudedStarPC.get_patches                    *)
(***************************************************************************)
\* layer_offsets[off] for the first dof of point p: the vertical stride of
\* the nodes on the column over p, from W.cell_node_map().offset
layer_offsets(W, p) == W.stride[PointDepth(p) + 1]

\* variant of lines 313-326 that keeps the dof count of the whole column
get_basemesh_nodes_ColumnDof(W) ==
  [p \in Points |->
     IF getDof(W, p) = 0
     THEN [off |-> getOffset(W, p), dof |-> 0, layeroffset |-> 0]
     ELSE [off |-> getOffset(W, p),
           dof |-> getDof(W, p),
           layeroffset |-> layer_offsets(W, p)]]

\* get_basemesh_nodes(W): per point, offset, dofs per layer, layer offset
get_basemesh_nodes(W) ==
  [p \in Points |->
     IF getDof(W, p) = 0
     THEN [off |-> getOffset(W, p), dof |-> 0, layeroffset |-> 0]
     ELSE [off |-> getOffset(W, p),
           dof |-> getDof(W, p) - (nlayers - 1) * layer_offsets(W, p),
           layeroffset |-> layer_offsets(W, p)]]

\* variant of lines 379-384 with the top layer tested one too high
Planes_TopOffByOne(k) ==
  IF k = 0 THEN << 1, 0 >>
  ELSE IF k = nlayers THEN << -1, 0 >>
  ELSE << -1, 1, 0 >>

\* lines 379-384
Planes(k) ==
  IF k = 0 THEN << 1, 0 >>
  ELSE IF k = nlayers - 1 THEN << -1, 0 >>
  ELSE << -1, 1, 0 >>

\* lines 395-417 for one plane and one point: no slice when the point has
\* no stacked dofs, else the sub-range [begin, end)
PointSlice(i, plane, p, k) ==
  LET bn == get_basemesh_nodes(V[i])[p]
      blayer_offset == bn.layeroffset
      off == bn.off
      dof == bn.dof
  IN IF blayer_offset <= 0 THEN << >>
     ELSE IF plane = 0
          THEN << [plane |-> plane, p |-> p,
                   begin |-> off + k * blayer_offset,
                   end |-> off + k * blayer_offset + dof] >>
          ELSE << [plane |-> plane, p |-> p,
                   begin |-> off + Min2(k, k + plane) * blayer_offset + dof,
                   end |-> off + Max2(k, k + plane) * blayer_offset] >>

\* lines 390-417: the slices of field i, planes outermost, points innermost
FieldSlices(i, planes, pts, k) ==
  Flatten([a \in DOMAIN planes |->
             Flatten([b \in DOMAIN pts |-> PointSlice(i, planes[a], pts[b], k)])])

\* numpy.argsort(a, kind='mergesort'): 0-based positions in ascending order
\* of value, equal values in ascending position
RECURSIVE ArgsortFrom(_, _)
ArgsortFrom(a, rest) ==
  IF rest = {} THEN << >>
  ELSE LET m == CHOOSE x \in rest :
                  \A y \in rest : a[x] < a[y] \/ (a[x] = a[y] /\ x <= y)
       IN << m - 1 >> \o ArgsortFrom(a, rest \ {m})

argsort(a) == ArgsortFrom(a, DOMAIN a)

\* variant of line 422 without the reversal
reversed_Forgotten(s) == s

\* reversed(s)
reversed(s) == [j \in DOMAIN s |-> s[Len(s) + 1 - j]]

\* lines 388-423: the passes of the loop over the fields from field i on,
\* each with its slices, the order they are taken in and what they select.
\* The name k is bound by the layer loop and bound again by the loop of
\* line 422, so a later field sees the last value line 422 gave it.
RECURSIVE ExtFieldPasses(_, _, _, _)
ExtFieldPasses(i, planes, pts, k) ==
  IF i > Len(V) THEN << >>
  ELSE LET iset == local_ises_indices(i)
           slices == FieldSlices(i, planes, pts, k)
           sdof == [j \in DOMAIN slices |-> slices[j].end - slices[j].begin]
           order == reversed(argsort(sdof))
           taken == Flatten([j \in DOMAIN order |->
                       Slice(iset, V[i].vs * slices[order[j] + 1].begin,
                                   V[i].vs * slices[order[j] + 1].end)])
           knext == IF order = << >> THEN k ELSE order[Len(order)]
       IN << [slices |-> slices, sdof |-> sdof, order |-> order, taken |-> taken] >>
          \o ExtFieldPasses(i + 1, planes, pts, knext)

\* lines 386-423: the indices of one patch, field after field
ExtFieldLoop(i, planes, pts, k) ==
  LET passes == ExtFieldPasses(i, planes, pts, k)
  IN Flatten([f \in DOMAIN passes |-> passes[f].taken])

\* variant of lines 343-368 without the delegation of lines 346-347
ExtrudedStarEnter_NoDelegation ==
  /\ pc = "get_patches"
  /\ method = "ExtrudedStar"
  /\ depth' = getInt(construct_dim, 0)
  /\ ises' = << >>
  /\ seed' = getDepthStratum(getInt(construct_dim, 0))[1]
  /\ stop' = getDepthStratum(getInt(construct_dim, 0))[2]
  /\ pc' = "ext_loop"
  /\ UNCHANGED method
  /\ UNCHANGED << env, err, warnings, height, ci, points, kiter, asmpc, seedlog,
                  ptlog, ncalls, nd_in, nd_out >>

\* lines 343-368: delegation on a flat mesh, else the set-up of the loops
ExtrudedStarEnter ==
  /\ pc = "get_patches"
  /\ method = "ExtrudedStar"
  /\ IF ~extruded
     THEN /\ method' = "Star"
          /\ UNCHANGED << pc, depth, ises, seed, stop >>
     ELSE /\ depth' = getInt(construct_dim, 0)
          /\ ises' = << >>
          /\ seed' = getDepthStratum(getInt(construct_dim, 0))[1]
          /\ stop' = getDepthStratum(getInt(construct_dim, 0))[2]
          /\ pc' = "ext_loop"
          /\ UNCHANGED method
  /\ UNCHANGED << env, err, warnings, height, ci, points, kiter, asmpc, seedlog,
                  ptlog, ncalls, nd_in, nd_out >>

\* lines 369-372 and 426
ExtSeedLoop ==
  /\ pc = "ext_loop"
  /\ IF seed >= stop
     THEN /\ pc' = "returned"
          /\ UNCHANGED << seed, seedlog >>
     ELSE IF IsGhost(seed)
          THEN /\ seed' = seed + 1
               /\ UNCHANGED << pc, seedlog >>
          ELSE /\ seedlog' = Append(seedlog, seed)
               /\ pc' = "ext_points"
               /\ UNCHANGED seed
  /\ UNCHANGED << env, method, err, warnings, depth, height, stop, ci, points,
                  kiter, ises, asmpc, ptlog, ncalls, nd_in, nd_out >>

\* lines 375-378: star, reordering, shift by the chart start, layer iterator
ExtStarPoints ==
  /\ pc = "ext_points"
  /\ LET nd == nested_dissection(getTransitiveClosure(seed, FALSE))
     IN IF nd.raised
        THEN /\ Raise(ConcatenateError, {})
             /\ UNCHANGED << points, kiter >>
        ELSE /\ points' = [j \in DOMAIN nd.value |-> nd.value[j] - getChart[1]]
             /\ kiter' = 0
             /\ pc' = "ext_layer"
             /\ UNCHANGED err
  /\ UNCHANGED << env, method, warnings, depth, height, seed, stop, ci, ises,
                  asmpc, seedlog, ptlog, ncalls, nd_in, nd_out >>

\* variant of lines 378-425 that does not emit a patch without indices
ExtLayerPatch_DropEmpty ==
  /\ pc = "ext_layer"
  /\ IF kiter >= nlayers
     THEN /\ seed' = seed + 1
          /\ pc' = "ext_loop"
          /\ UNCHANGED << kiter, ises, ptlog >>
     ELSE /\ IF ExtFieldLoop(1, Planes(kiter), points, kiter) = << >>
             THEN UNCHANGED << ises, ptlog >>
             ELSE /\ ises' = Append(ises, ExtFieldLoop(1, Planes(kiter), points, kiter))
                  /\ ptlog' = Append(ptlog, LogEntry(seed, kiter, points, SeqRange(points),
                                      Planes(kiter),
                                      ExtFieldPasses(1, Planes(kiter), points, kiter)))
          /\ kiter' = kiter + 1
          /\ UNCHANGED << pc, seed >>
  /\ UNCHANGED << env, method, err, warnings, depth, height, stop, ci, points,
                  asmpc, seedlog, ncalls, nd_in, nd_out >>

\* lines 378-425: one pass of the layer loop, or its end
ExtLayerPatch ==
  /\ pc = "ext_layer"
  /\ IF kiter >= nlayers
     THEN /\ seed' = seed + 1
          /\ pc' = "ext_loop"
          /\ UNCHANGED << kiter, ises, ptlog >>
     ELSE /\ ises' = Append(ises, ExtFieldLoop(1, Planes(kiter), points, kiter))
          /\ ptlog' = Append(ptlog, LogEntry(seed, kiter, points, SeqRange(points),
                                             Planes(kiter),
                                             ExtFieldPasses(1, Planes(kiter), points, kiter)))
          /\ kiter' = kiter + 1
          /\ UNCHANGED << pc, seed >>
  /\ UNCHANGED << env, method, err, warnings, depth, height, stop, ci, points,
                  asmpc, seedlog, ncalls, nd_in, nd_out >>

(***************************************************************************)
(* ASMPatchPC.initialize after get_patches returned, and the lifecycle     *)
(***************************************************************************)
\* variant of lines 46-91 without the availability test of line 72
SetupBackend_NoAvailabilityTest ==
  /\ pc = "returned"
  /\ IF backend = "petscasm"
     THEN /\ asmpc' = [type |-> "asm",
                       subdomains |-> [j \in DOMAIN ises |-> applyIS(ises[j])],
                       registered |-> 1, setUp |-> 0, stored |-> TRUE]
          /\ pc' = "initialized"
          /\ UNCHANGED err
     ELSE IF backend = "tinyasm"
          THEN /\ asmpc' = [type |-> "tinyasm", subdomains |-> ises,
                            registered |-> 1, setUp |-> 1, stored |-> TRUE]
               /\ pc' = "initialized"
               /\ UNCHANGED err
          ELSE /\ Raise(UnknownBackendError, {})
               /\ UNCHANGED asmpc
  /\ UNCHANGED << env, method, warnings, depth, height, seed, stop, ci, points,
                  kiter, ises, seedlog, ptlog, ncalls, nd_in, nd_out >>

\* lines 46-91
SetupBackend ==
  /\ pc = "returned"
  /\ IF backend = "petscasm"
     THEN /\ asmpc' = [type |-> "asm",
                       subdomains |-> [j \in DOMAIN ises |-> applyIS(ises[j])],
                       registered |-> 1, setUp |-> 0, stored |-> TRUE]
          /\ pc' = "initialized"
          /\ UNCHANGED err
     ELSE IF backend = "tinyasm"
          THEN IF ~have_tinyasm
               THEN /\ Raise(TinyASMError, {})
                    /\ UNCHANGED asmpc
               ELSE /\ asmpc' = [type |-> "tinyasm", subdomains |-> ises,
                                 registered |-> 1, setUp |-> 1, stored |-> TRUE]
                    /\ pc' = "initialized"
                    /\ UNCHANGED err
          ELSE /\ Raise(UnknownBackendError, {})
               /\ UNCHANGED asmpc
  /\ UNCHANGED << env, method, warnings, depth, height, seed, stop, ci, points,
                  kiter, ises, seedlog, ptlog, ncalls, nd_in, nd_out >>

\* calls made on the object after initialize
Calls == ncalls.update + ncalls.apply + ncalls.applyTranspose

\* variant of lines 107-108 that rebuilds and registers the patches again
Update_Rebuild ==
  /\ pc = "initialized"
  /\ Calls < MaxCalls
  /\ asmpc' = [asmpc EXCEPT !.setUp = @ + 1, !.registered = @ + 1,
                            !.subdomains = ises]
  /\ ncalls' = [ncalls EXCEPT !.update = @ + 1, !.get_patches = @ + 1]
  /\ UNCHANGED << env, pc, method, err, warnings, depth, height, seed, stop, ci,
                  points, kiter, ises, seedlog, ptlog, nd_in, nd_out >>

\* lines 107-108
Update ==
  /\ pc = "initialized"
  /\ Calls < MaxCalls
  /\ asmpc' = [asmpc EXCEPT !.setUp = @ + 1]
  /\ ncalls' = [ncalls EXCEPT !.update = @ + 1]
  /\ UNCHANGED << env, pc, method, err, warnings, depth, height, seed, stop, ci,
                  points, kiter, ises, seedlog, ptlog, nd_in, nd_out >>

\* lines 110-111
Apply ==
  /\ pc = "initialized"
  /\ Calls < MaxCalls
  /\ ncalls' = [ncalls EXCEPT !.apply = @ + 1]
  /\ UNCHANGED << env, pc, method, err, warnings, depth, height, seed, stop, ci,
                  points, kiter, ises, asmpc, seedlog, ptlog, nd_in, nd_out >>

\* lines 113-114
ApplyTranspose ==
  /\ pc = "initialized"
  /\ Calls < MaxCalls
  /\ ncalls' = [ncalls EXCEPT !.applyTranspose = @ + 1]
  /\ UNCHANGED << env, pc, method, err, warnings, depth, height, seed, stop, ci,
                  points, kiter, ises, asmpc, seedlog, ptlog, nd_in, nd_out >>

Next ==
  \/ Initialize
  \/ StarEnter
  \/ StarSeedLoop
  \/ StarBuildPatch
  \/ VankaEnter
  \/ VankaSeedLoop
  \/ VankaBuildPatch
  \/ LinesmoothEnter
  \/ LinesmoothLoop
  \/ ExtrudedStarEnter
  \/ ExtSeedLoop
  \/ ExtStarPoints
  \/ ExtLayerPatch
  \/ SetupBackend
  \/ Update
  \/ Apply
  \/ ApplyTranspose

Spec == Init /\ [][Next]_vars

(***************************************************************************)
(* nested_dissection on its own: the argument is any point sequence of     *)
(* length at most MaxLen, the ordering routine any of the modelled ones.   *)
(***************************************************************************)
InitND ==
  /\ strategy = "Star"
  /\ extruded = FALSE
  /\ nlayers = 0
  /\ ghost = {}
  /\ V = << P1 >>
  /\ construct_dim = -1
  /\ construct_codim = -1
  /\ codims = << 0, 1 >>
  /\ ordering \in OrderingKinds
  /\ backend = "petscasm"
  /\ have_tinyasm = FALSE
  /\ method = strategy
  /\ nd_in \in UNION { [1..n -> Points] : n \in 0..MaxLen }
  /\ nd_out = [raised |-> FALSE, value |-> << >>]
  /\ pc = "nd_call"
  /\ err = NoError
  /\ warnings = {}
  /\ depth = -1
  /\ height = -1
  /\ seed = 0
  /\ stop = 0
  /\ ci = 0
  /\ points = << >>
  /\ kiter = 0
  /\ ises = << >>
  /\ asmpc = NoPC
  /\ seedlog = << >>
  /\ ptlog = << >>
  /\ ncalls = NoCalls

\* lines 287-295: one call
NestedDissectionCall ==
  /\ pc = "nd_call"
  /\ nd_out' = nested_dissection(nd_in)
  /\ IF nd_out'.raised
     THEN /\ pc' = "nd_raised"
          /\ err' = [kind |-> ConcatenateError, keys |-> {}]
     ELSE /\ pc' = "nd_done"
          /\ UNCHANGED err
  /\ UNCHANGED << env, method, warnings, depth, height, seed, stop, ci, points,
                  kiter, ises, asmpc, seedlog, ptlog, ncalls, nd_in >>

NextND == NestedDissectionCall

SpecND == InitND /\ [][NextND]_vars

TypeOK ==
  /\ pc \in {"uninitialized", "get_patches", "star_loop", "star_build", "vanka_loop",
             "vanka_build", "line_loop", "ext_loop", "ext_points", "ext_layer",
             "returned", "initialized", "error", "nd_call", "nd_done", "nd_raised"}
  /\ Len(ptlog) = Len(ises)

(***************************************************************************)
(* Properties                                                              *)
(***************************************************************************)
\* get_patches has returned its list to initialize
GetPatchesDone ==
  \/ pc \in {"returned", "initialized"}
  \/ pc = "error" /\ err.kind \in {TinyASMError, UnknownBackendError}

\* the owned entities of a half-open point range, ascending
OwnedOf(range) == SortedSeq({ e \in range[1]..(range[2] - 1) : e \notin ghost })

\* the stratum the Star, Vanka and ExtrudedStar options select
SelectedStratum ==
  IF strategy = "Vanka" /\ construct_dim = -1
  THEN getHeightStratum(construct_codim)
  ELSE getDepthStratum(getInt(construct_dim, 0))

\* C1: for every seed of a Vanka run, the point set the dofs are extracted
\* from contains every point of the Star (transitive closure with
\* useCone=False) of that seed.
C1_VankaSupersetOfStar ==
  strategy = "Vanka" =>
    \A j \in DOMAIN ptlog :
      SeqRange(getTransitiveClosure(ptlog[j].seed, FALSE)) \subseteq ptlog[j].pts

\* C2: ASMVankaPC.get_patches raises the configuration error, naming both
\* option keys, exactly when construct_dim and construct_codim are both
\* unset or both set; it raises before any seed is visited or patch built,
\* and with exactly one option set no configuration error is raised.
C2_VankaOptionValidation ==
  (strategy = "Vanka" /\ pc \notin {"uninitialized", "get_patches"}) =>
    LET bothOrNeither == (construct_dim = -1) = (construct_codim = -1)
    IN /\ (pc = "error" /\ err.kind = VankaOptionsError) <=> bothOrNeither
       /\ bothOrNeither =>
            /\ err.keys = {"firedrake_0_pc_vanka_construct_dim",
                           "firedrake_0_pc_vanka_construct_codim"}
            /\ seedlog = << >>
            /\ ises = << >>
            /\ ptlog = << >>

C2_Witness ==
  /\ strategy = "Vanka"
  /\ construct_dim = 2
  /\ construct_codim = 1
  /\ pc = "error"
  /\ err.kind = VankaOptionsError

\* how often the stratum of entity e is traversed by the configured run
Traversals(e) ==
  IF strategy = "Linesmooth"
  THEN Cardinality({ j \in DOMAIN codims :
                       e \in getHeightStratum(codims[j])[1]..(getHeightStratum(codims[j])[2] - 1) })
  ELSE IF e \in SelectedStratum[1]..(SelectedStratum[2] - 1) THEN 1 ELSE 0

\* the ownership test of the current seed precedes its expansion, no ghost
\* entity is ever a seed, and every patch comes from a logged seed
SeedsOwnedAndTestedFirst ==
  /\ \A j \in DOMAIN seedlog : seedlog[j] \notin ghost
  /\ \A j \in DOMAIN ptlog : ptlog[j].seed \in SeqRange(seedlog)
  /\ pc \in {"star_build", "vanka_build", "ext_points", "ext_layer"} =>
       /\ seedlog # << >>
       /\ seedlog[Len(seedlog)] = seed
       /\ Len(ptlog) = 0 \/ ptlog[Len(ptlog)].seed # seed \/ pc = "ext_layer"

\* C3 as stated: in one get_patches of any strategy (Linesmooth with any
\* codims list), every owned entity of a selected stratum drives exactly one
\* seed iteration, no ghost entity seeds a patch, and the ownership test
\* comes before the expansion of the seed.
C3_EachOwnedSeedExactlyOnce ==
  /\ SeedsOwnedAndTestedFirst
  /\ GetPatchesDone =>
       \A e \in Points \ ghost :
         Count(seedlog, e) = (IF Traversals(e) > 0 THEN 1 ELSE 0)

\* C3 amended: every owned entity drives exactly one seed iteration per
\* occurrence of its stratum in the configuration (one for Star, Vanka and
\* ExtrudedStar and for a Linesmooth codims list without repeated entries),
\* no ghost entity seeds a patch, and the ownership test comes first.
C3_EachOwnedSeedOncePerTraversal ==
  /\ SeedsOwnedAndTestedFirst
  /\ GetPatchesDone =>
       \A e \in Points \ ghost : Count(seedlog, e) = Traversals(e)

C3_Witness ==
  /\ strategy = "Linesmooth"
  /\ codims = << 0, 0 >>
  /\ ghost = {1, 5, 9, 10}
  /\ GetPatchesDone
  /\ seedlog = << 0, 0 >>

\* C4: on a layered mesh the extrusion-aware Star path returns exactly
\* (#owned seeds) x numLayers index sets, one per (seed, layer) pair in
\* seed-major, layer-minor order; a pair without indices is still emitted.
C4_OnePatchPerSeedAndLayer ==
  (strategy = "ExtrudedStar" /\ extruded /\ GetPatchesDone) =>
    LET owned == OwnedOf(getDepthStratum(getInt(construct_dim, 0)))
    IN /\ Len(ises) = Len(owned) * nlayers
       /\ Len(ptlog) = Len(ises)
       /\ \A j \in DOMAIN ptlog :
            /\ ptlog[j].seed = owned[((j - 1) \div nlayers) + 1]
            /\ ptlog[j].layer = (j - 1) % nlayers

C4_Witness ==
  /\ strategy = "ExtrudedStar"
  /\ extruded
  /\ GetPatchesDone
  /\ Len(ises) >= 2 * nlayers
  /\ \E j \in DOMAIN ises : ises[j] = << >>

\* C5: the planes consulted for the patch of layer k are exactly {+1, 0}
\* for k = 0, exactly {-1, 0} for k = numLayers-1 (k # 0), and exactly
\* {-1, +1, 0} for every other layer.
C5_PlanesOfLayer ==
  \A j \in DOMAIN ptlog :
    ptlog[j].layer >= 0 =>
      LET k == ptlog[j].layer
          used == SeqRange(ptlog[j].planes)
      IN /\ k = 0 => used = {1, 0}
         /\ (k = nlayers - 1 /\ k # 0) => used = {-1, 0}
         /\ (k # 0 /\ k # nlayers - 1) => used = {-1, 1, 0}

C5_Witness ==
  /\ nlayers >= 3
  /\ \E j \in DOMAIN ptlog : ptlog[j].layer = 1 /\ ptlog[j].planes = << -1, 1, 0 >>
  /\ \E j \in DOMAIN ptlog : ptlog[j].layer = nlayers - 1 /\ ptlog[j].planes = << -1, 0 >>

\* C6 as stated: when tinyasm is requested but unavailable, initialize fails
\* before any patch work begins: get_patches is never invoked and no index
\* set is built.
C6_TinyASMFailsBeforePatchWork ==
  (backend = "tinyasm" /\ ~have_tinyasm /\ pc = "error" /\ err.kind = TinyASMError) =>
    /\ ncalls.get_patches = 0
    /\ seedlog = << >>
    /\ ises = << >>

\* C6 amended: when tinyasm is requested but unavailable, initialize never
\* completes; the remediation error is raised after get_patches was invoked
\* and returned its index sets, and before any index set is registered with
\* the inner PC, before its setUp and before self.asmpc is assigned; the only
\* other errors are those get_patches itself raises.
C6_TinyASMFailsBeforeRegistration ==
  (backend = "tinyasm" /\ ~have_tinyasm) =>
    /\ pc # "initialized"
    /\ asmpc = NoPC
    /\ pc = "error" =>
         err.kind \in {TinyASMError, VankaOptionsError, LinesmoothAssertion,
                       ConcatenateError}
    /\ (pc = "error" /\ err.kind = TinyASMError) =>
         /\ ncalls.get_patches = 1
         /\ \A e \in Points \ ghost :
              strategy # "Linesmooth" /\ e \in SelectedStratum[1]..(SelectedStratum[2] - 1)
                => e \in SeqRange(seedlog)

C6_Witness ==
  /\ backend = "tinyasm"
  /\ ~have_tinyasm
  /\ pc = "error"
  /\ err.kind = TinyASMError
  /\ Len(ises) > 0

\* C7: over initialize followed by any update/apply/applyTranspose calls,
\* get_patches is invoked exactly once; update only adds a setUp of the
\* inner PC, and the registered index sets stay those initialize registered
\* (the result of get_patches, translated to global numbers for petscasm).
C7_PatchesBuiltOnce ==
  pc = "initialized" =>
    /\ ncalls.get_patches = 1
    /\ asmpc.registered = 1
    /\ asmpc.stored
    /\ asmpc.setUp = ncalls.update + (IF backend = "tinyasm" THEN 1 ELSE 0)
    /\ Len(asmpc.subdomains) = Len(ises)
    /\ \A j \in DOMAIN ises :
         /\ Len(asmpc.subdomains[j]) = Len(ises[j])
         /\ \A a \in DOMAIN ises[j] :
              asmpc.subdomains[j][a] =
                (IF backend = "petscasm" THEN ises[j][a] + 1000 ELSE ises[j][a])

C7_Witness ==
  /\ pc = "initialized"
  /\ backend = "petscasm"
  /\ ncalls.update >= 2
  /\ Len(asmpc.subdomains) > 0
  /\ asmpc.subdomains[1] # << >>

\* C8: on a non-layered mesh ASMExtrudedStarPC.get_patches raises nothing and
\* returns the very sequence of index sets ASMStarPC.get_patches returns for
\* the same function space and construct_dim.
C8_FlatMeshDelegatesToStar ==
  (strategy = "ExtrudedStar" /\ ~extruded) =>
    /\ pc = "error" => err.kind \in {TinyASMError, UnknownBackendError}
    /\ GetPatchesDone => ises = StarResult

C8_Witness ==
  /\ strategy = "ExtrudedStar"
  /\ ~extruded
  /\ pc = "initialized"
  /\ Len(ises) >= 2
  /\ ises[1] # << >>

\* out is a reordering of in: same length, same multiset of entries
IsReorderingOf(out, in) ==
  /\ Len(out) = Len(in)
  /\ \A x \in SeqRange(out) \cup SeqRange(in) : Count(out, x) = Count(in, x)

\* C9 as stated: nested_dissection returns a permutation of its input for
\* any input of size >= 0, sizes 0 and 1 included, without error.
C9_ReorderingForAnySize ==
  pc \in {"nd_done", "nd_raised"} =>
    /\ ~nd_out.raised
    /\ IsReorderingOf(nd_out.value, nd_in)

\* C9 amended: nested_dissection returns a permutation of its input (same
\* length, same multiset) for any input of size >= 1; a size-0 input makes
\* numpy.concatenate raise ValueError, and nothing is returned.
C9_ReorderingForNonEmpty ==
  /\ pc = "nd_done" => Len(nd_in) >= 1 /\ IsReorderingOf(nd_out.value, nd_in)
  /\ pc = "nd_raised" => Len(nd_in) = 0 /\ err.kind = ConcatenateError

C9_Witness ==
  /\ pc = "nd_done"
  /\ Len(nd_in) = 3
  /\ nd_out.value # nd_in
  /\ \E a, b \in DOMAIN nd_in : a # b /\ nd_in[a] = nd_in[b]

\* local indices of the dofs of the single field on the points of a set
DofsOn(S) == UNION { SeqRange(PointIndices(1, p)) : p \in S }

\* indices that appear in at least one emitted patch
Covered == UNION { SeqRange(ises[j]) : j \in DOMAIN ises }

\* a flat-mesh Star run at construct_dim = 0 with one scalar field is done
VertexStarRunDone ==
  /\ strategy = "Star"
  /\ ~extruded
  /\ Len(V) = 1
  /\ V[1].vs = 1
  /\ getInt(construct_dim, 0) = 0
  /\ GetPatchesDone

\* C10 as stated: the vertex-star patches of a single scalar field on a flat
\* simplicial mesh together contain every dof carried by an owned entity.
C10_VertexStarsCoverOwnedDofs ==
  VertexStarRunDone => DofsOn(Points \ ghost) \subseteq Covered

\* owned entities with at least one owned vertex in their closure
OwnedWithOwnedVertex ==
  { p \in Points \ ghost :
      \E v \in SeqRange(getTransitiveClosure(p, TRUE)) :
        PointDepth(v) = 0 /\ v \notin ghost }

\* C10 amended: the vertex-star patches contain every dof carried by an
\* owned entity that has at least one owned vertex in its closure (every
\* owned dof when all vertices are owned); dofs of an owned entity whose
\* vertices are all ghost are in no patch of this process.
C10_VertexStarsCoverDofsNearOwnedVertices ==
  VertexStarRunDone =>
    /\ DofsOn(OwnedWithOwnedVertex) \subseteq Covered
    /\ DofsOn((Points \ ghost) \ OwnedWithOwnedVertex) \cap Covered = {}

C10_Witness ==
  /\ VertexStarRunDone
  /\ V = << P2 >>
  /\ ghost = {1, 3, 4, 5, 9, 10}
  /\ DofsOn({7}) # {}
  /\ Covered # {}

\* the owned entities of a height stratum that carry dofs of the single
\* section, ascending
LineSeeds(codim) ==
  SortedSeq({ e \in getHeightStratum(codim)[1]..(getHeightStratum(codim)[2] - 1) :
                e \notin ghost /\ getDof(V[1], e) # 0 })

\* the contiguous index range [off*value_size, (off+dof)*value_size) of e
OwnRange(e) ==
  LET lo == getOffset(V[1], e) * V[1].vs
      hi == (getOffset(V[1], e) + getDof(V[1], e)) * V[1].vs
  IN [j \in 1..(hi - lo) |-> lo + j - 1]

\* C11: ASMLinesmoothPC.get_patches emits, for each codim of the configured
\* list in turn, one patch per owned entity of that height stratum with a
\* nonzero dof count, and that patch is exactly the entity's own contiguous
\* range [off*value_size, (off+dof)*value_size); an entity without dofs
\* gives no patch.
C11_LinesmoothOwnRanges ==
  (strategy = "Linesmooth" /\ GetPatchesDone) =>
    LET seeds == Flatten([c \in DOMAIN codims |-> LineSeeds(codims[c])])
    IN /\ Len(ises) = Len(seeds)
       /\ \A j \in DOMAIN ises :
            /\ ises[j] = OwnRange(seeds[j])
            /\ ises[j] # << >>
            /\ ptlog[j].seed = seeds[j]

C11_Witness ==
  /\ strategy = "Linesmooth"
  /\ GetPatchesDone
  /\ V = << VP2 >>
  /\ codims = << 0, 1 >>
  /\ ghost = {1, 5, 9, 10}
  /\ seedlog = << 0, 6, 7, 8 >>
  /\ Len(ises) = 3

\* the sub-range the layer index k, a plane and a point select in field f:
\* plane 0 gives [off + k*stride, off + k*stride + dofsPerLayer), another
\* plane [off + min(k,k+plane)*stride + dofsPerLayer, off + max(k,k+plane)*stride)
LayerRange(f, k, plane, p) ==
  LET off == getOffset(V[f], p)
      stride == V[f].stride[PointDepth(p) + 1]
      dofsPerLayer == V[f].dpl[PointDepth(p) + 1]
  IN IF plane = 0
     THEN << off + k * stride, off + k * stride + dofsPerLayer >>
     ELSE << off + Min2(k, k + plane) * stride + dofsPerLayer,
             off + Max2(k, k + plane) * stride >>

\* C12: in the patch of (seed, layer k), for every field of the function
\* space, the second and later ones of a mixed space included, and every
\* star point with stacked dofs, the sub-range of each plane is the one the
\* layer index k of that patch selects.
C12_SubRangesUseLayerIndex ==
  \A j \in DOMAIN ptlog :
    ptlog[j].layer >= 0 =>
      \A f \in DOMAIN ptlog[j].fields :
        \A a \in DOMAIN ptlog[j].fields[f].slices :
          LET sl == ptlog[j].fields[f].slices[a]
          IN << sl.begin, sl.end >> = LayerRange(f, ptlog[j].layer, sl.plane, sl.p)

\* the same for the first field alone
FirstFieldUsesLayerIndex ==
  \A j \in DOMAIN ptlog :
    ptlog[j].layer >= 0 =>
      \A a \in DOMAIN ptlog[j].fields[1].slices :
        LET sl == ptlog[j].fields[1].slices[a]
        IN << sl.begin, sl.end >> = LayerRange(1, ptlog[j].layer, sl.plane, sl.p)

\* size of the a-th generated sub-range of a field pass
SizeOf(pass, a) == pass.slices[a].end - pass.slices[a].begin

\* the order of a pass takes every generated sub-range exactly once, in
\* descending size, and the indices are concatenated in that order
TakenInDescendingSize(f, pass) ==
  /\ Len(pass.order) = Len(pass.slices)
  /\ { pass.order[a] + 1 : a \in DOMAIN pass.order } = DOMAIN pass.slices
  /\ \A a, b \in DOMAIN pass.order :
       a < b => SizeOf(pass, pass.order[a] + 1) >= SizeOf(pass, pass.order[b] + 1)
  /\ pass.taken =
       Flatten([a \in DOMAIN pass.order |->
                  Slice(local_ises_indices(f),
                        V[f].vs * pass.slices[pass.order[a] + 1].begin,
                        V[f].vs * pass.slices[pass.order[a] + 1].end)])

\* C13 as stated: within one field of one extruded Star patch the sub-ranges
\* are concatenated in descending size, and sub-ranges of equal size keep
\* their generation order (plane order, then point order).
C13_DescendingTiesInGenerationOrder ==
  \A j \in DOMAIN ptlog :
    \A f \in DOMAIN ptlog[j].fields :
      LET pass == ptlog[j].fields[f]
      IN /\ TakenInDescendingSize(f, pass)
         /\ \A a, b \in DOMAIN pass.order :
              (a < b /\ SizeOf(pass, pass.order[a] + 1) = SizeOf(pass, pass.order[b] + 1))
                => pass.order[a] < pass.order[b]

\* C13 amended: the sub-ranges are concatenated in descending size, and
\* sub-ranges of equal size come in the reverse of their generation order
\* (the ascending stable order of line 420 is reversed at line 422).
C13_DescendingTiesInReverseGenerationOrder ==
  \A j \in DOMAIN ptlog :
    \A f \in DOMAIN ptlog[j].fields :
      LET pass == ptlog[j].fields[f]
      IN /\ TakenInDescendingSize(f, pass)
         /\ \A a, b \in DOMAIN pass.order :
              (a < b /\ SizeOf(pass, pass.order[a] + 1) = SizeOf(pass, pass.order[b] + 1))
                => pass.order[a] > pass.order[b]

C13_Witness ==
  \E j \in DOMAIN ptlog :
    \E f \in DOMAIN ptlog[j].fields :
      LET pass == ptlog[j].fields[f]
      IN /\ \E a, b \in DOMAIN pass.slices : a # b /\ SizeOf(pass, a) = SizeOf(pass, b)
         /\ \E a, b \in DOMAIN pass.slices : SizeOf(pass, a) > SizeOf(pass, b)
         /\ pass.taken # << >>

\* what one (point, field) pair contributes: nothing for a dof count of 0,
\* else value_size*count contiguous indices of the field's local index set,
\* from position value_size*offset
Contribution(i, p) ==
  IF getDof(V[i], p) = 0 THEN << >>
  ELSE [j \in 1..(V[i].vs * getDof(V[i], p)) |->
          FieldStart(i) + V[i].vs * getOffset(V[i], p) + j - 1]

\* the patches of the Star and Vanka dof extraction
FlatPatches == { j \in DOMAIN ptlog : method \in {"Star", "Vanka"} /\ ptlog[j].layer = -1 }

\* C14 as stated: the emitted sequence is the concatenation of the
\* contributions point by point and, for each point, field by field
\* (point-major, field-minor), without deduplication.
C14_PointMajorExtraction ==
  \A j \in FlatPatches :
    ises[j] = Flatten([a \in DOMAIN ptlog[j].ptseq |->
                 Flatten([i \in DOMAIN V |-> Contribution(i, ptlog[j].ptseq[a])])])

\* C14 amended: the emitted sequence is the concatenation of the
\* contributions field by field in declared order and, for each field, point
\* by point along the ordered point list (field-major, point-minor), without
\* deduplication.
C14_FieldMajorExtraction ==
  \A j \in FlatPatches :
    ises[j] = Flatten([i \in DOMAIN V |->
                 Flatten([a \in DOMAIN ptlog[j].ptseq |-> Contribution(i, ptlog[j].ptseq[a])])])

C14_Witness ==
  /\ Len(V) = 2
  /\ \E j \in FlatPatches :
       /\ \E a \in DOMAIN ptlog[j].ptseq : getDof(V[1], ptlog[j].ptseq[a]) = 0
       /\ \E a, b \in DOMAIN ptlog[j].ptseq :
            /\ a < b
            /\ getDof(V[2], ptlog[j].ptseq[a]) > 0
            /\ getDof(V[1], ptlog[j].ptseq[b]) > 0
       /\ Len(ises[j]) >= 3

\* C15: for every layer, every applicable plane of either sign, every field
\* and every star point with stride > 0 a sub-range is computed, and it
\* satisfies begin <= end (no negative length, sdof never negative), with
\* dofsPerLayer = total dof count - (numLayers-1)*stride.
C15_SubRangesOrdered ==
  \A j \in DOMAIN ptlog :
    ptlog[j].layer >= 0 =>
      \A f \in DOMAIN ptlog[j].fields :
        LET pass == ptlog[j].fields[f]
            stacked == { a \in DOMAIN ptlog[j].ptseq :
                           V[f].stride[PointDepth(ptlog[j].ptseq[a]) + 1] > 0 }
        IN /\ Len(pass.slices) = Len(ptlog[j].planes) * Cardinality(stacked)
           /\ \A a \in DOMAIN pass.slices :
                /\ pass.slices[a].begin <= pass.slices[a].end
                /\ pass.sdof[a] = pass.slices[a].end - pass.slices[a].begin
                /\ pass.sdof[a] >= 0

C15_Witness ==
  \E j \in DOMAIN ptlog :
    \E f \in DOMAIN ptlog[j].fields :
      LET pass == ptlog[j].fields[f]
      IN /\ \E a \in DOMAIN pass.slices :
              pass.slices[a].plane = -1 /\ pass.slices[a].begin < pass.slices[a].end
         /\ \E a \in DOMAIN pass.slices :
              pass.slices[a].plane = 1 /\ pass.slices[a].begin < pass.slices[a].end
         /\ \E a \in DOMAIN pass.slices :
              pass.slices[a].plane = 0 /\ pass.slices[a].begin < pass.slices[a].end

\* the sub-range sl of field f lies inside the column dof block of its
\* point, [off, off + total dof count)
InsideOwnBlock(f, sl) ==
  \A x \in sl.begin..(sl.end - 1) :
    /\ getOffset(V[f], sl.p) <= x
    /\ x < getOffset(V[f], sl.p) + getDof(V[f], sl.p)

\* C16: every sub-range emitted for a base-mesh point lies inside that
\* point's own column dof block, for every layer, applicable plane and field;
\* no patch reads dofs of another entity.
C16_SubRangesInsideOwnBlock ==
  \A j \in DOMAIN ptlog :
    ptlog[j].layer >= 0 =>
      \A f \in DOMAIN ptlog[j].fields :
        \A a \in DOMAIN ptlog[j].fields[f].slices :
          InsideOwnBlock(f, ptlog[j].fields[f].slices[a])

\* the same for the first field alone, whose sub-ranges use the layer index
FirstFieldInsideOwnBlock ==
  \A j \in DOMAIN ptlog :
    ptlog[j].layer >= 0 =>
      \A a \in DOMAIN ptlog[j].fields[1].slices :
        InsideOwnBlock(1, ptlog[j].fields[1].slices[a])

====
